---- MODULE Spec2Model ----
(***************************************************************************)
(* ChatDocs: the resilient-call layer of services/geminiService.ts         *)
(* (getAiInstance, retryOperation, withFallback, handleApiError and the    *)
(* three exported generators) and the handlers of App.tsx that drive it.   *)
(*                                                                         *)
(* An error is a record of the fields the code inspects: status, code,     *)
(* type, whether it is an Error instance, and its message.  A message is   *)
(* the set of the phrases it contains, so message.includes(p) is p \in     *)
(* message and the empty set is the empty (falsy) message.  The field at is the    *)
(* serial number of the provider attempt that threw the error (0 for an    *)
(* error the service builds itself); it makes error objects of different   *)
(* attempts distinct.                                                      *)
(***************************************************************************)
EXTENDS Integers, Sequences, FiniteSets, TLC

\* geminiService.ts: the credential, the client handle, and (for the service
\* taken on its own) the call in progress and the number of calls made
VARIABLES API_KEY, ai, call, calls

\* App.tsx: the state of the component ...
VARIABLES companies, activeCompanyId, editingCompany, isCompanyModalOpen,
          localDocuments, urlGroups, activeUrlGroupId,
          chatMessages, isLoading, isFetchingSuggestions, initialQuerySuggestions,
          isGeneratingMindMap, mindMapData, isMindMapOpen

\* ... and what is pending on the event loop: the timer of the first effect,
\* the file reads of handleFileChange, the awaits of handleSendMessage,
\* handleGenerateMindMap and fetchAndSetInitialSuggestions; the outcome of
\* the last chat request and the last alert shown; and the counters that
\* stand for the time stamps of the ids
VARIABLES modalTimer, uploads, chatReqs, mapReqs, sugReqs,
          lastSettled, lastAlert, uploaded, sent, urlEdits

svcVars == <<call, calls>>
companyVars == <<companies, activeCompanyId, editingCompany, isCompanyModalOpen, modalTimer>>
docVars == <<localDocuments, uploads, uploaded>>
urlVars == <<urlGroups, activeUrlGroupId, urlEdits>>
chatVars == <<chatMessages, isLoading, chatReqs, lastSettled, sent>>
sugVars == <<isFetchingSuggestions, initialQuerySuggestions, sugReqs>>
mapVars == <<isGeneratingMindMap, mindMapData, isMindMapOpen, mapReqs, lastAlert>>
appVars == <<companyVars, docVars, urlVars, chatVars, sugVars, mapVars>>
vars == <<API_KEY, ai, svcVars, appVars>>

\* ---------------------------------------------------------------- bounds
MaxCalls == 2
MaxCompanies == 2
MaxDocs == 2
MaxSends == 1
MaxChats == 2
MaxUrlEdits == 2
MaxPending == 1
MaxOverlap == 2

\* ------------------------------------------------------------- constants
DEFAULT_MODEL_NAME == "gemini-2.5-flash"
FALLBACK_MODEL_NAME == "gemini-1.5-flash"
DefaultRetries == 3
DefaultDelay == 2000
SuggestionRetries == 1
SuggestionDelay == 1000

\* ---------------------------------------------------------------- errors
Err(s, c, m, t, ie) ==
  [status |-> s, code |-> c, message |-> m, type |-> t, isError |-> ie, at |-> 0]

NoError == Err(0, 0, {}, "none", FALSE)

\* What the provider SDK can throw from one generateContent attempt: every
\* single form of the two signatures the code looks for, an error carrying
\* both, errors carrying neither, and a thrown value that is not an Error.
ProviderErrors ==
  { Err(429, 0, {"other"}, "", TRUE),
    Err(0, 429, {"other"}, "", TRUE),
    Err(0, 0, {"429"}, "", TRUE),
    Err(0, 0, {"quota"}, "", TRUE),
    Err(0, 0, {"RESOURCE_EXHAUSTED"}, "", TRUE),
    Err(404, 0, {"other"}, "", TRUE),
    Err(0, 404, {"other"}, "", TRUE),
    Err(0, 0, {"404"}, "", TRUE),
    Err(0, 0, {"not found"}, "", TRUE),
    Err(404, 0, {"not found", "quota"}, "", TRUE),
    Err(500, 0, {"other"}, "GoogleGenAIError", TRUE),
    Err(400, 0, {"API key not valid"}, "", TRUE),
    Err(0, 0, {}, "", FALSE) }

\* ------------------------------------------------------------ response texts
\* An entry of a JSON array: its JavaScript type and its spelling.
JStr(s) == [type |-> "string", v |-> s]
JOther(type, s) == [type |-> type, v |-> s]

\* What a piece of text spells: a JSON value (null, the tree of a mind map,
\* an object with or without an array under the key suggestions), something
\* that is no JSON ("invalid"), or nothing at all ("empty").
JValue(kind, isArray, entries) ==
  [kind |-> kind, suggestionsIsArray |-> isArray, suggestions |-> entries]
Nothing == JValue("empty", FALSE, <<>>)
NotJson == JValue("invalid", FALSE, <<>>)
JNull == JValue("null", FALSE, <<>>)
Tree == JValue("tree", FALSE, <<>>)
SuggestionsDoc(entries) == JValue("object", TRUE, entries)
NoArrayDoc == JValue("object", FALSE, <<>>)

\* response.text: undefined, or a string, which is a body with or without a
\* code fence around it: FENCE stands for the three backticks, which a
\* language tag may follow
Text(fence, body) == [defined |-> TRUE, fence |-> fence, body |-> body]
Fences == {"FENCE", "FENCE json"}
Undefined == [defined |-> FALSE, fence |-> "none", body |-> Nothing]
EmptyText == Text("none", Nothing)

\* variant: only undefined counts as no text
Falsy_OnlyUndefined(text) == ~text.defined

\* !text for a string or undefined
Falsy(text) == ~text.defined \/ (text.fence = "none" /\ text.body.kind = "empty")

\* a text cut off in the middle of its suggestions array
Truncated == JValue("invalid", TRUE, <<JStr("a"), JStr("b")>>)

\* response.text of a successful attempt of getInitialSuggestions
SuggestionTexts ==
  { Undefined, EmptyText,
    Text("none", SuggestionsDoc(<<JStr("q1"), JStr("q2")>>)),
    Text("FENCE json", SuggestionsDoc(<<JStr("a"), JStr("b"), JStr("c"), JStr("d"), JStr("e")>>)),
    Text("FENCE", SuggestionsDoc(<<JStr("x"), JOther("number", "1"), JStr("y"), JOther("object", "null"),
                                   JStr("z"), JStr("w"), JStr("v")>>)),
    Text("none", SuggestionsDoc(<<JOther("number", "1")>>)),
    Text("none", NoArrayDoc), Text("none", JNull), Text("FENCE json", Tree),
    Text("none", NotJson), Text("FENCE json", NotJson), Text("none", Truncated),
    Text("FENCE json", Nothing) }

\* response.text of a successful attempt.
ResponseTexts ==
  { Undefined, EmptyText,
    Text("none", Tree), Text("FENCE json", Tree), Text("FENCE", Tree),
    Text("none", SuggestionsDoc(<<JStr("q1"), JStr("q2")>>)),
    Text("none", NotJson) }

ConfigError == Err(0, 0, {"Gemini API Key not configured"}, "", TRUE)

\* ------------------------------------------------ geminiService.ts: policy
\* retryOperation's isQuotaError
IsQuotaError(e) ==
  \/ e.status = 429
  \/ e.code = 429
  \/ /\ e.message # {}
     /\ \/ "429" \in e.message
        \/ "quota" \in e.message
        \/ "RESOURCE_EXHAUSTED" \in e.message

\* withFallback's isNotFoundError
IsNotFoundError(e) ==
  \/ e.status = 404
  \/ e.code = 404
  \/ (e.message # {} /\ "404" \in e.message)
  \/ (e.message # {} /\ "not found" \in e.message)

\* variants: the budget is not consulted; any error is retried
ShouldRetry_IgnoresBudget(retries, e) == IsQuotaError(e)
ShouldRetry_AnyError(retries, e) == retries > 0

\* retryOperation: the condition under which a failed attempt is retried
ShouldRetry(retries, e) == retries > 0 /\ IsQuotaError(e)

\* variant: constant backoff
NextDelay_Constant(delay) == delay

\* retryOperation: the delay handed to the recursive call
NextDelay(delay) == delay * 2

\* variants: fallback on any error; fallback from the fallback run as well
ShouldFallback_AnyError(fellBack, e) == ~fellBack
ShouldFallback_Again(fellBack, e) == IsNotFoundError(e)

\* withFallback: the condition under which the fallback run is started;
\* the catch clause that decides it guards the preferred run only
ShouldFallback(fellBack, e) == ~fellBack /\ IsNotFoundError(e)

\* handleApiError: the Error it throws in place of the error it is given
handleApiError(e, defaultMsg) ==
  IF e.isError
  THEN IF e.message # {} /\ "API key not valid" \in e.message
       THEN Err(0, 0, {"Invalid API Key"}, "", TRUE)
       ELSE IF e.status = 429 \/ (e.message # {} /\ "quota" \in e.message)
       THEN Err(0, 0, {"API Quota Exceeded"}, "", TRUE)
       ELSE IF e.type = "GoogleGenAIError" /\ e.message # {}
       THEN Err(0, 0, {"Gemini API Error: "} \cup e.message, "", TRUE)
       ELSE Err(0, 0, IF e.message # {} THEN e.message ELSE {defaultMsg}, "", TRUE)
  ELSE Err(0, 0, {defaultMsg}, "", TRUE)

\* variant: a parser that takes what it can read
JsonParses_Lenient(text) == text.defined /\ text.body.kind # "empty"

\* JSON.parse: the texts it accepts, and what it returns for them
JsonParses(text) == text.defined /\ text.fence = "none" /\ text.body.kind \notin {"empty", "invalid"}
JsonParse(text) == text.body

\* JSON.stringify of the two literals of getInitialSuggestions (189, 212)
PlaceholderSuggestions ==
  Text("none", SuggestionsDoc(<<JStr("Analizeaza situatia fiscala a firmei."),
                                JStr("Verifica deductibilitatea facturilor."),
                                JStr("Calculeaza TVA de plata.")>>))
EmptySuggestions == Text("none", SuggestionsDoc(<<>>))

\* which exported function wraps its provider call in withFallback
UsesFallback(fn) == fn \in {"chat", "mindmap"}

DefaultMsg(fn) ==
  IF fn = "chat" THEN "Failed to get response from AI."
  ELSE "Failed to generate mind map."

\* ------------------------------------------- geminiService.ts: the request
\* A part of the contents: the bytes of a document, or a text.
InlinePart(doc) == [kind |-> "inlineData", data |-> doc.id, text |-> <<>>]
TextPart(text) == [kind |-> "text", data |-> 0, text |-> text]

\* fullPrompt (130-137): the prompt, the URLs when there are any, the list
\* of the documents when there are any
FullPrompt(prompt, urls, documents) ==
  <<prompt>>
  \o (IF Len(urls) > 0 THEN <<"External Legal/Fiscal Sources:">> \o urls ELSE <<>>)
  \o (IF Len(documents) > 0
      THEN <<"Attached Documents:">> \o [i \in DOMAIN documents |-> "document"]
      ELSE <<>>)

\* variant: the text part is pushed first
ChatParts_TextFirst(prompt, urls, documents) ==
  <<TextPart(FullPrompt(prompt, urls, documents))>>
  \o [i \in DOMAIN documents |-> InlinePart(documents[i])]

\* parts of generateContentWithUrlContext (113-153)
ChatParts(prompt, urls, documents) ==
  [i \in DOMAIN documents |-> InlinePart(documents[i])]
  \o <<TextPart(FullPrompt(prompt, urls, documents))>>

\* tools of generateContentWithUrlContext (155)
ChatTools(urls) == IF Len(urls) > 0 THEN <<"urlContext">> ELSE <<>>

\* parts of generateMindMapFromContext (223-248), which declares no tool
MindMapParts(documents) ==
  [i \in DOMAIN documents |-> InlinePart(documents[i])]
  \o <<TextPart(<<"Analyze the provided company documents and fiscal context.">>)>>

\* parts of getInitialSuggestions (193-195), which declares no tool
SuggestionParts == <<TextPart(<<"Based on the provided fiscal documentation">>)>>

\* what generateContent is called with, but for the model: contents[0].parts
\* and config.tools
NoRequest == [parts |-> <<>>, tools |-> <<>>]

\* variant: the mind map and the suggestions name the URLs in their prompt
Request_UrlsInEveryPrompt(fn, prompt, urls, documents) ==
  IF fn = "chat"
  THEN [parts |-> ChatParts(prompt, urls, documents), tools |-> ChatTools(urls)]
  ELSE IF fn = "mindmap"
  THEN [parts |-> MindMapParts(documents) \o <<TextPart(urls)>>, tools |-> <<>>]
  ELSE [parts |-> SuggestionParts \o <<TextPart(urls)>>, tools |-> <<>>]

Request(fn, prompt, urls, documents) ==
  IF fn = "chat"
  THEN [parts |-> ChatParts(prompt, urls, documents), tools |-> ChatTools(urls)]
  ELSE IF fn = "mindmap"
  THEN [parts |-> MindMapParts(documents), tools |-> <<>>]
  ELSE [parts |-> SuggestionParts, tools |-> <<>>]

\* ------------------------------------------------- one service call, state
\*  pc       idle | attempt (awaiting operation()) | wait (awaiting the
\*           backoff timer) | resolved | rejected
\*  model    the model the pending attempt is sent to
\*  retries, delay   arguments of the current retryOperation frame
\*  fellBack control is inside withFallback's catch clause
\*  log      one entry per provider attempt made so far
\*  waits    the delays slept so far
\*  thrown   the errors that propagated out of retryOperation, one per run
\*  returned what retryOperation returned (by: the attempt that produced it)
\*  caught   the error that reached the catch clause of the exported function
\*  value    the text of the resolved value, parsed: the tree that
\*           generateMindMapFromContext resolves with; error: the rejection
\*  args     the prompt, URLs and documents the function was called with
\*  request  what the attempts send
Unset == JValue("unset", FALSE, <<>>)
NoArgs == [prompt |-> "", urls |-> <<>>, documents |-> <<>>]
IdleCall ==
  [fn |-> "none", urls |-> 0, modelName |-> DEFAULT_MODEL_NAME, pc |-> "idle",
   model |-> "none", retries |-> 0, delay |-> 0, fellBack |-> FALSE,
   log |-> <<>>, waits |-> <<>>, thrown |-> <<>>,
   returned |-> [text |-> Undefined, by |-> 0], caught |-> NoError,
   value |-> [text |-> Undefined, by |-> 0], parsed |-> Unset, error |-> NoError,
   args |-> NoArgs, request |-> NoRequest]

Resolve(c, text, by) == [c EXCEPT !.pc = "resolved", !.value = [text |-> text, by |-> by]]
Reject(c, e) == [c EXCEPT !.pc = "rejected", !.error = e]

\* variant: the credential is not checked
getAiInstanceThrows_Never(key) == FALSE

\* getAiInstance: throws without a credential ...
getAiInstanceThrows(key) == ~key
\* ... and otherwise builds the handle unless there is one: the handle after
getAiInstance(key, handle) == IF getAiInstanceThrows(key) THEN handle ELSE TRUE

\* variant: the client handle is fetched first
ReachesGetAiInstance_Always(fn, urls) == TRUE

\* getInitialSuggestions returns before getAiInstance for an empty URL list
ReachesGetAiInstance(fn, urls) == ~(fn = "suggest" /\ urls = 0)

\* The synchronous prefix of an exported function, up to its first await.
Begin(fn, urls, modelName, key) ==
  LET c0 == [IdleCall EXCEPT !.fn = fn, !.urls = urls, !.modelName = modelName] IN
  IF ~ReachesGetAiInstance(fn, urls)
  THEN Resolve(c0, PlaceholderSuggestions, 0)
  ELSE IF getAiInstanceThrows(key)
  THEN Reject(c0, ConfigError)
  ELSE [c0 EXCEPT !.pc = "attempt", !.model = modelName,
                  !.retries = IF UsesFallback(fn) THEN DefaultRetries ELSE SuggestionRetries,
                  !.delay = IF UsesFallback(fn) THEN DefaultDelay ELSE SuggestionDelay]

\* the Error of line 265 and the SyntaxError that JSON.parse throws
NoDataError == Err(0, 0, {"No data returned for Mind Map"}, "", TRUE)
SyntaxError == Err(0, 0, {"Unexpected token"}, "", TRUE)

\* An exported function up to its first await: the request is built after
\* getAiInstance returned.
Call(fn, prompt, urls, documents, modelName, key) ==
  LET c == [Begin(fn, Len(urls), modelName, key) EXCEPT
              !.args = [prompt |-> prompt, urls |-> urls, documents |-> documents]]
  IN IF c.pc = "attempt"
     THEN [c EXCEPT !.request = Request(fn, prompt, urls, documents)]
     ELSE c

\* The continuation of an exported function once its provider call returned.
OnResponse(c, text, by) ==
  IF c.fn = "mindmap"
  THEN IF Falsy(text)
       THEN Reject(c, handleApiError(NoDataError, DefaultMsg(c.fn)))
       ELSE IF ~JsonParses(text)
       THEN Reject(c, handleApiError(SyntaxError, DefaultMsg(c.fn)))
       ELSE [Resolve(c, text, by) EXCEPT !.parsed = JsonParse(text)]
  ELSE Resolve(c, text, by)

\* variant: getInitialSuggestions rethrows like the other two
OnFailure_Rethrows(c, e) ==
  Reject([c EXCEPT !.caught = e], handleApiError(e, DefaultMsg(c.fn)))

\* The catch clause of an exported function.
OnFailure(c, e) ==
  IF c.fn = "suggest"
  THEN Resolve([c EXCEPT !.caught = e], EmptySuggestions, 0)
  ELSE Reject([c EXCEPT !.caught = e], handleApiError(e, DefaultMsg(c.fn)))

\* The signatures as the provider's errors carry them, for the log.
QuotaSignature(e) ==
  \/ e.status = 429 \/ e.code = 429
  \/ e.message \cap {"429", "quota", "RESOURCE_EXHAUSTED"} # {}
NotFoundSignature(e) ==
  \/ e.status = 404 \/ e.code = 404
  \/ e.message \cap {"404", "not found"} # {}

ErrClass(e) ==
  IF QuotaSignature(e) /\ NotFoundSignature(e) THEN "both"
  ELSE IF QuotaSignature(e) THEN "quota"
  ELSE IF NotFoundSignature(e) THEN "notfound"
  ELSE "other"

\* run 1 is withFallback's try block (or getInitialSuggestions' own
\* retryOperation), run 2 the retryOperation of its catch clause
Run(c) == IF c.fellBack THEN 2 ELSE 1
Entry(c, outcome) == [model |-> c.model, run |-> Run(c), outcome |-> outcome]

\* operation() resolved with a text
AttemptOk(c, text) ==
  LET n == Len(c.log) + 1 IN
  OnResponse([c EXCEPT !.log = Append(@, Entry(c, "ok")),
                       !.returned = [text |-> text, by |-> n]], text, n)

\* operation() rejected with err: the catch clauses of retryOperation,
\* withFallback and the exported function, up to the next await
AttemptFail(c, err) ==
  LET n == Len(c.log) + 1
      e == [err EXCEPT !.at = n]
      c1 == [c EXCEPT !.log = Append(@, Entry(c, ErrClass(e)))]
  IN IF ShouldRetry(c.retries, e)
     THEN [c1 EXCEPT !.pc = "wait"]
     ELSE LET c2 == [c1 EXCEPT !.thrown = Append(@, e)] IN
          IF UsesFallback(c.fn) /\ ShouldFallback(c.fellBack, e)
          THEN [c2 EXCEPT !.fellBack = TRUE, !.model = FALLBACK_MODEL_NAME,
                          !.retries = DefaultRetries, !.delay = DefaultDelay]
          ELSE OnFailure(c2, e)

\* variant: the recursive call is given the same budget
TimerFired_KeepsBudget(c) ==
  [c EXCEPT !.pc = "attempt", !.waits = Append(@, [run |-> Run(c), ms |-> c.delay]),
            !.delay = NextDelay(c.delay)]

\* the backoff timer fired: retryOperation(operation, retries - 1, delay * 2)
TimerFired(c) ==
  [c EXCEPT !.pc = "attempt", !.waits = Append(@, [run |-> Run(c), ms |-> c.delay]),
            !.retries = c.retries - 1, !.delay = NextDelay(c.delay)]

\* variant: only a resolved promise counts
Terminal_ResolvedOnly(c) == c.pc = "resolved"

\* the promise of the exported function is settled
Terminal(c) == c.pc \in {"resolved", "rejected"}

\* ---------------------------------------------- the awaited service call
\* What the promise of an exported function settles with.
Outcome(c) ==
  [ok |-> c.pc = "resolved",
   text |-> IF c.pc = "resolved" THEN c.value.text ELSE Undefined,
   data |-> IF c.pc = "resolved" THEN c.parsed ELSE Unset,
   message |-> IF c.pc = "rejected" THEN c.error.message ELSE {}]

\* The provider errors and response texts the component model draws from.
SettleErrors ==
  { Err(429, 0, {"other"}, "", TRUE),
    Err(404, 0, {"other"}, "", TRUE) }
SettleTexts(fn) ==
  IF fn = "chat" THEN {EmptyText, Text("none", NotJson)}
  ELSE IF fn = "mindmap" THEN {EmptyText, Text("none", Tree), Text("none", NotJson)}
  ELSE {Text("none", SuggestionsDoc(<<JStr("q1"), JStr("q2")>>)), Text("none", NotJson)}

\* Every outcome a started call can settle with, over all provider
\* behaviours: the runs of the steps above from c to a settled call.
RECURSIVE Finals(_)
Finals(c) ==
  IF c.pc \in {"resolved", "rejected"} THEN {Outcome(c)}
  ELSE IF c.pc = "wait" THEN Finals(TimerFired(c))
  ELSE UNION ({Finals(AttemptOk(c, t)) : t \in SettleTexts(c.fn)}
              \cup {Finals(AttemptFail(c, e)) : e \in SettleErrors})

ChatFinals == Finals(Begin("chat", 1, DEFAULT_MODEL_NAME, TRUE))
MindMapFinals == Finals(Begin("mindmap", 1, DEFAULT_MODEL_NAME, TRUE))
SuggestFinals == Finals(Begin("suggest", 1, DEFAULT_MODEL_NAME, TRUE))

\* the outcomes of the promise of a call that ran up to its first await
Settles(c) ==
  IF c.pc \in {"resolved", "rejected"} THEN {Outcome(c)}
  ELSE IF c.fn = "chat" THEN ChatFinals
  ELSE IF c.fn = "mindmap" THEN MindMapFinals
  ELSE SuggestFinals

\* ------------------------------------------------------------- App.tsx
FISCAL_URLS == <<"fiscal-1", "fiscal-2", "fiscal-3">>
PROCEDURI_CONTABILE_URLS == <<"proceduri-1", "proceduri-2">>
INITIAL_URL_GROUPS == [legislatie |-> FISCAL_URLS, proceduri |-> PROCEDURI_CONTABILE_URLS]
GroupIds == {"legislatie", "proceduri"}
MAX_URLS == 20

\* what the user can type or pick
Names == {"Alfa"}
Queries == {"  ", "q"}
UrlInputs == {"https://x.ro", "x.ro", "fiscal-1"}

NoId == 0
NoCompany == [id |-> NoId, name |-> ""]

Range(q) == {q[i] : i \in DOMAIN q}
RemoveAt(q, i) == SubSeq(q, 1, i - 1) \o SubSeq(q, i + 1, Len(q))

\* Derived state (App.tsx 57-61)
ActiveCompany(cs, id) ==
  IF \E i \in DOMAIN cs : cs[i].id = id
  THEN cs[CHOOSE i \in DOMAIN cs : cs[i].id = id /\ \A j \in 1..(i - 1) : cs[j].id # id]
  ELSE NoCompany
\* variant: all documents, whatever their company
ActiveDocuments_All(docs, id) == docs
ActiveDocuments(docs, id) == SelectSeq(docs, LAMBDA d : d.companyId = id)
CurrentUrlsForChat(groups, gid) == IF gid \in GroupIds THEN groups[gid] ELSE <<>>

activeCompany == ActiveCompany(companies, activeCompanyId)
activeDocuments == ActiveDocuments(localDocuments, activeCompanyId)
currentUrlsForChat == CurrentUrlsForChat(urlGroups, activeUrlGroupId)

\* A chat message.  An id is its prefix and the time stamp that follows it;
\* the time stamp of a user or placeholder message is the number of the send
\* (two sends are more than a millisecond apart), that of any other message
\* is left out, as no code looks such a message up.
Msg(kind, n, sender, text, loading) ==
  [id |-> [kind |-> kind, n |-> n], sender |-> sender, text |-> text, isLoading |-> loading]

\* the state after construction, before the component mounts
Unmounted ==
  /\ companies = <<>> /\ activeCompanyId = NoId
  /\ editingCompany = NoCompany /\ isCompanyModalOpen = FALSE
  /\ localDocuments = <<>>
  /\ urlGroups = INITIAL_URL_GROUPS /\ activeUrlGroupId = "legislatie"
  /\ chatMessages = <<>> /\ isLoading = FALSE
  /\ isFetchingSuggestions = FALSE /\ initialQuerySuggestions = <<>>
  /\ isGeneratingMindMap = FALSE /\ mindMapData = JNull /\ isMindMapOpen = FALSE
  /\ modalTimer = FALSE /\ uploads = <<>> /\ chatReqs = <<>> /\ mapReqs = <<>>
  /\ sugReqs = <<>>
  /\ lastSettled = [n |-> 0, ok |-> TRUE, message |-> {}]
  /\ lastAlert = {}
  /\ uploaded = 0 /\ sent = 0 /\ urlEdits = 0

\* fetchAndSetInitialSuggestions up to its await (129-138); getInitialSuggestions
\* runs up to its own await, so the client handle is built here
SuggestionRequest(urls) ==
  [urls |-> urls, promise |-> Call("suggest", "", urls, <<>>, DEFAULT_MODEL_NAME, API_KEY)]

\* useEffect (163-167), which runs after the first render and after every
\* render in which currentUrlsForChat is another array than before, for at
\* most limit requests in flight
Effect(limit, changed, urls) ==
  IF changed /\ Len(urls) > 0 /\ API_KEY
  THEN /\ Len(sugReqs) < limit
       /\ isFetchingSuggestions' = TRUE
       /\ initialQuerySuggestions' = <<>>
       /\ sugReqs' = Append(sugReqs, SuggestionRequest(urls))
       /\ ai' = getAiInstance(API_KEY, ai)
  ELSE UNCHANGED <<isFetchingSuggestions, initialQuerySuggestions, sugReqs, ai>>

SuggestionsEffect(changed, urls) == Effect(MaxPending, changed, urls)

\* The mounted component: both effects have run once.
Init ==
  /\ API_KEY \in BOOLEAN
  /\ call = IdleCall /\ calls = 0
  /\ companies = <<>> /\ activeCompanyId = NoId
  /\ editingCompany = NoCompany /\ isCompanyModalOpen = FALSE
  /\ localDocuments = <<>>
  /\ urlGroups = INITIAL_URL_GROUPS /\ activeUrlGroupId = "legislatie"
  /\ chatMessages = <<>> /\ isLoading = FALSE
  /\ isFetchingSuggestions = API_KEY /\ initialQuerySuggestions = <<>>
  /\ sugReqs = IF API_KEY THEN <<SuggestionRequest(FISCAL_URLS)>> ELSE <<>>
  /\ ai = API_KEY
  /\ isGeneratingMindMap = FALSE /\ mindMapData = JNull /\ isMindMapOpen = FALSE
  /\ modalTimer = TRUE /\ uploads = <<>> /\ chatReqs = <<>> /\ mapReqs = <<>>
  /\ lastSettled = [n |-> 0, ok |-> TRUE, message |-> {}]
  /\ lastAlert = {}
  /\ uploaded = 0 /\ sent = 0 /\ urlEdits = 0

\* ---- companies
\* useEffect (64-73): the 500 ms timer set while there is no company
ModalTimerFires ==
  /\ modalTimer
  /\ modalTimer' = FALSE
  /\ editingCompany' = NoCompany
  /\ isCompanyModalOpen' = TRUE
  /\ UNCHANGED <<API_KEY, ai, svcVars, companies, activeCompanyId, docVars, urlVars,
                 chatVars, sugVars, mapVars>>

handleAddNewCompany ==
  /\ editingCompany' = NoCompany
  /\ isCompanyModalOpen' = TRUE
  /\ UNCHANGED <<API_KEY, ai, svcVars, companies, activeCompanyId, modalTimer, docVars,
                 urlVars, chatVars, sugVars, mapVars>>

\* onEditCompany (308)
onEditCompany ==
  /\ \E i \in DOMAIN companies : editingCompany' = companies[i]
  /\ isCompanyModalOpen' = TRUE
  /\ UNCHANGED <<API_KEY, ai, svcVars, companies, activeCompanyId, modalTimer, docVars,
                 urlVars, chatVars, sugVars, mapVars>>

\* onCancel (286-288)
onCancel ==
  /\ isCompanyModalOpen
  /\ Len(companies) > 0
  /\ isCompanyModalOpen' = FALSE
  /\ UNCHANGED <<API_KEY, ai, svcVars, companies, activeCompanyId, editingCompany,
                 modalTimer, docVars, urlVars, chatVars, sugVars, mapVars>>

WelcomeMessage(c) == Msg("welcome", 0, "system", {"Dosar nou creat pentru", c.name}, FALSE)
SwitchMessage(c) == Msg("switch", 0, "system", {"Am comutat pe dosarul firmei", c.name}, FALSE)

\* handleSaveCompany (75-107), called by the modal's form with a name
handleSaveCompany ==
  /\ isCompanyModalOpen
  /\ \E name \in Names :
       IF editingCompany # NoCompany /\ \E i \in DOMAIN companies : companies[i].id = editingCompany.id
       THEN /\ companies' = [i \in DOMAIN companies |->
                               IF companies[i].id = editingCompany.id
                               THEN [companies[i] EXCEPT !.name = name]
                               ELSE companies[i]]
            /\ activeCompanyId' = editingCompany.id
            /\ UNCHANGED chatMessages
       ELSE /\ Len(companies) < MaxCompanies
            /\ LET newCompany == [id |-> Len(companies) + 1, name |-> name] IN
               /\ companies' = Append(companies, newCompany)
               /\ activeCompanyId' = newCompany.id
               /\ chatMessages' = <<WelcomeMessage(newCompany)>>
  /\ isCompanyModalOpen' = FALSE
  /\ editingCompany' = NoCompany
  /\ modalTimer' = (modalTimer /\ Len(companies') = Len(companies))
  /\ UNCHANGED <<API_KEY, ai, svcVars, docVars, urlVars, isLoading, chatReqs, lastSettled,
                 sent, sugVars, mapVars>>

\* handleSwitchCompany (109-122), called with a company of the list
handleSwitchCompany ==
  /\ \E i \in DOMAIN companies :
       LET companyId == companies[i].id IN
       /\ companyId # activeCompanyId
       /\ activeCompanyId' = companyId
       /\ chatMessages' = <<SwitchMessage(ActiveCompany(companies, companyId))>>
  /\ UNCHANGED <<API_KEY, ai, svcVars, companies, editingCompany, isCompanyModalOpen,
                 modalTimer, docVars, urlVars, isLoading, chatReqs, lastSettled, sent,
                 sugVars, mapVars>>

\* ---- documents
\* KnowledgeBaseManager.handleFileChange up to its await: the render it
\* belongs to fixes activeCompanyId and the handleAddDocument it will call
handleFileChange ==
  /\ activeCompanyId # NoId
  /\ uploaded + Len(uploads) < MaxDocs
  /\ uploads' = Append(uploads, [companyId |-> activeCompanyId])
  /\ UNCHANGED <<API_KEY, ai, svcVars, companyVars, localDocuments, uploaded, urlVars,
                 chatVars, sugVars, mapVars>>

\* the file is read: newDoc is built and handed to handleAddDocument (191-199)
handleAddDocument ==
  /\ \E i \in DOMAIN uploads :
       LET newDoc == [id |-> uploaded + 1, companyId |-> uploads[i].companyId]
           closureActiveCompanyId == uploads[i].companyId
       IN
       /\ uploads' = RemoveAt(uploads, i)
       /\ localDocuments' =
            IF closureActiveCompanyId = NoId THEN localDocuments
            ELSE Append(localDocuments, [newDoc EXCEPT !.companyId = closureActiveCompanyId])
  /\ uploaded' = uploaded + 1
  /\ UNCHANGED <<API_KEY, ai, svcVars, companyVars, urlVars, chatVars, sugVars, mapVars>>

\* handleRemoveDocument (201), called with a document of the list shown
handleRemoveDocument ==
  /\ \E i \in DOMAIN activeDocuments :
       localDocuments' = SelectSeq(localDocuments, LAMBDA d : d.id # activeDocuments[i].id)
  /\ UNCHANGED <<API_KEY, ai, svcVars, companyVars, uploads, uploaded, urlVars, chatVars,
                 sugVars, mapVars>>

\* ---- URLs
\* KnowledgeBaseManager.validateUrl
validateUrl(u) == u # "" /\ u \in {"https://x.ro", "fiscal-1", "fiscal-2", "fiscal-3",
                                   "proceduri-1", "proceduri-2"}

\* variant: a URL the group holds already is added again
AddUrl_AllowsDuplicates(groups, gid, url) ==
  [g \in DOMAIN groups |->
     IF g = gid /\ Len(groups[g]) < MAX_URLS THEN Append(groups[g], url) ELSE groups[g]]

\* handleAddUrl (169-178) on the groups
AddUrl(groups, gid, url) ==
  [g \in DOMAIN groups |->
     IF g = gid /\ Len(groups[g]) < MAX_URLS /\ url \notin Range(groups[g])
     THEN Append(groups[g], url) ELSE groups[g]]

\* handleRemoveUrl (180-189) on the groups
RemoveUrl(groups, gid, url) ==
  [g \in DOMAIN groups |->
     IF g = gid THEN SelectSeq(groups[g], LAMBDA u : u # url) ELSE groups[g]]

\* KnowledgeBaseManager.handleAddUrl, then App's handleAddUrl; the array of
\* the active group is a new one only if the URL was added; for at most
\* limit requests in flight
AddUrlUnder(limit) ==
  /\ urlEdits < MaxUrlEdits
  /\ \E url \in UrlInputs :
       /\ validateUrl(url)
       /\ Len(currentUrlsForChat) < MAX_URLS
       /\ urlGroups' = AddUrl(urlGroups, activeUrlGroupId, url)
       /\ Effect(limit, urlGroups'[activeUrlGroupId] # urlGroups[activeUrlGroupId],
                 urlGroups'[activeUrlGroupId])
  /\ urlEdits' = urlEdits + 1
  /\ UNCHANGED <<API_KEY, svcVars, companyVars, docVars, activeUrlGroupId, chatVars, mapVars>>

handleAddUrl == AddUrlUnder(MaxPending)

\* handleRemoveUrl, called with a URL of the list shown; filter always
\* makes a new array
handleRemoveUrl ==
  /\ urlEdits < MaxUrlEdits
  /\ \E i \in DOMAIN currentUrlsForChat :
       /\ urlGroups' = RemoveUrl(urlGroups, activeUrlGroupId, currentUrlsForChat[i])
       /\ SuggestionsEffect(TRUE, urlGroups'[activeUrlGroupId])
  /\ urlEdits' = urlEdits + 1
  /\ UNCHANGED <<API_KEY, svcVars, companyVars, docVars, activeUrlGroupId, chatVars, mapVars>>

\* onSetGroupId (316)
setActiveUrlGroupId ==
  /\ \E g \in GroupIds :
       /\ g # activeUrlGroupId
       /\ activeUrlGroupId' = g
       /\ SuggestionsEffect(TRUE, urlGroups[g])
  /\ UNCHANGED <<API_KEY, svcVars, companyVars, docVars, urlGroups, urlEdits, chatVars, mapVars>>

\* ---- suggestions
\* Array.prototype.slice(from, to) for 0 <= from <= to
Slice(q, from, to) == SubSeq(q, from + 1, IF to < Len(q) THEN to ELSE Len(q))

\* jsonStr after lines 143-145: the fence is taken off when the pattern
\* matches and its second group, the body, is not the empty string
StripFence(text) ==
  IF text.fence \in Fences /\ text.body.kind # "empty" THEN Text("none", text.body) ELSE text

\* variant: the first four entries, and of these the strings
KeepStrings_SliceFirst(entries) ==
  LET first == SubSeq(entries, 1, IF Len(entries) < 4 THEN Len(entries) ELSE 4)
      strings == SelectSeq(first, LAMBDA x : x.type = "string")
  IN [i \in DOMAIN strings |-> strings[i].v]

\* parsed.suggestions.filter(s => typeof s === 'string') (149)
KeepStrings(entries) ==
  LET strings == SelectSeq(entries, LAMBDA x : x.type = "string")
  IN [i \in DOMAIN strings |-> strings[i].v]

\* the parse of fetchAndSetInitialSuggestions (139-154): suggestionsArray
ParseSuggestions(text) ==
  IF Falsy(text) THEN <<>>
  ELSE LET jsonStr == StripFence(text) IN
       IF ~JsonParses(jsonStr) THEN <<>>
       ELSE LET parsed == JsonParse(jsonStr) IN
            IF parsed.kind # "null" /\ parsed.suggestionsIsArray
            THEN KeepStrings(parsed.suggestions)
            ELSE <<>>

\* variant: an empty result is reported in the chat
SuggestionsContinue_Reports(i, o) ==
  /\ sugReqs' = RemoveAt(sugReqs, i)
  /\ initialQuerySuggestions' =
       IF o.ok THEN Slice(ParseSuggestions(o.text), 0, 4) ELSE initialQuerySuggestions
  /\ chatMessages' =
       IF initialQuerySuggestions' = <<>>
       THEN Append(chatMessages, Msg("error-suggestions", 0, "system", {"Eroare: "}, FALSE))
       ELSE chatMessages
  /\ isFetchingSuggestions' = FALSE
  /\ UNCHANGED <<API_KEY, ai, svcVars, companyVars, docVars, urlVars, isLoading, chatReqs,
                 lastSettled, sent, mapVars>>

\* fetchAndSetInitialSuggestions after its await (139-160): the
\* continuation of request i, whose promise settled with o
SuggestionsContinue(i, o) ==
  /\ sugReqs' = RemoveAt(sugReqs, i)
  /\ initialQuerySuggestions' =
       IF o.ok THEN Slice(ParseSuggestions(o.text), 0, 4) ELSE initialQuerySuggestions
  /\ isFetchingSuggestions' = FALSE
  /\ UNCHANGED <<API_KEY, ai, svcVars, companyVars, docVars, urlVars, chatVars, mapVars>>

\* a suggestion request settles and its continuation runs
SuggestionsSettle ==
  \E i \in DOMAIN sugReqs : \E o \in Settles(sugReqs[i].promise) : SuggestionsContinue(i, o)

\* ---- chat
Trim(q) == IF q = "  " THEN "" ELSE q

\* variant: a request in flight does not block the next
SendBlocked_IgnoresLoading(query, loading, fetching) == Trim(query) = "" \/ fetching

\* the early return of handleSendMessage (220)
SendBlocked(query, loading, fetching) == Trim(query) = "" \/ loading \/ fetching

\* handleSendMessage (219-253) up to its await, for the first limit sends
SendMessage(limit) ==
  /\ sent < limit
  /\ \E query \in Queries :
       /\ ~SendBlocked(query, isLoading, isFetchingSuggestions)
       /\ IF ~API_KEY
          THEN /\ chatMessages' = Append(chatMessages,
                    Msg("error-apikey", sent + 1, "system",
                        {"EROARE: API Key nu este configurat."}, FALSE))
               /\ UNCHANGED <<isLoading, initialQuerySuggestions, chatReqs, ai>>
          ELSE LET userMessage == Msg("user", sent + 1, "user", {query}, FALSE)
                   modelPlaceholderMessage ==
                     Msg("model-response", sent + 1, "model",
                         {"Procesez datele contabile..."}, TRUE)
               IN /\ isLoading' = TRUE
                  /\ initialQuerySuggestions' = <<>>
                  /\ chatMessages' = chatMessages \o <<userMessage, modelPlaceholderMessage>>
                  /\ chatReqs' = Append(chatReqs,
                       [placeholder |-> modelPlaceholderMessage,
                        urls |-> currentUrlsForChat,
                        documents |-> activeDocuments,
                        company |-> activeCompany,
                        promise |-> Call("chat", query, currentUrlsForChat, activeDocuments,
                                         DEFAULT_MODEL_NAME, API_KEY)])
                  /\ ai' = getAiInstance(API_KEY, ai)
  /\ sent' = sent + 1
  /\ UNCHANGED <<API_KEY, svcVars, companyVars, docVars, urlVars, lastSettled,
                 isFetchingSuggestions, sugReqs, mapVars>>

handleSendMessage == SendMessage(MaxSends)

\* response.text as the chat shows it: the phrases it contains
Phrases(text) == {"response.text", text.fence, text.body.kind}

\* variants: the answer is added at the end of the log, the placeholder
\* staying where it is; the error message is still shown as loading
ReplacePlaceholder_Appends(msgs, placeholder, o) ==
  Append(msgs, [placeholder EXCEPT
                  !.text = IF o.ok THEN Phrases(o.text) ELSE {"Eroare: "} \cup o.message,
                  !.isLoading = FALSE])
ReplacePlaceholder_ErrorStillLoading(msgs, placeholder, o) ==
  [i \in DOMAIN msgs |->
     IF msgs[i].id = placeholder.id
     THEN IF o.ok
          THEN [placeholder EXCEPT !.text = Phrases(o.text), !.isLoading = FALSE]
          ELSE [placeholder EXCEPT !.text = {"Eroare: "} \cup o.message, !.sender = "system"]
     ELSE msgs[i]]

\* the two setChatMessages of 254-268: the message with the placeholder's id
\* becomes the answer, or the error attributed to the system
ReplacePlaceholder(msgs, placeholder, o) ==
  [i \in DOMAIN msgs |->
     IF msgs[i].id = placeholder.id
     THEN IF o.ok
          THEN [placeholder EXCEPT
                  !.text = IF ~Falsy(o.text) THEN Phrases(o.text)
                           ELSE {"Nu am primit un raspuns valid."},
                  !.isLoading = FALSE]
          ELSE [placeholder EXCEPT
                  !.text = {"Eroare: "} \cup o.message,
                  !.sender = "system",
                  !.isLoading = FALSE]
     ELSE msgs[i]]

\* handleSendMessage after its await (254-271)
ChatSettle ==
  /\ \E i \in DOMAIN chatReqs : \E o \in Settles(chatReqs[i].promise) :
       /\ chatReqs' = RemoveAt(chatReqs, i)
       /\ chatMessages' = ReplacePlaceholder(chatMessages, chatReqs[i].placeholder, o)
       /\ lastSettled' = [n |-> chatReqs[i].placeholder.id.n, ok |-> o.ok, message |-> o.message]
  /\ isLoading' = FALSE
  /\ UNCHANGED <<API_KEY, ai, svcVars, companyVars, docVars, urlVars, sent, sugVars, mapVars>>

\* ---- mind map
\* handleGenerateMindMap (203-208) up to its await
\* the early return of handleGenerateMindMap (204)
MindMapBlocked(urls, documents, generating) ==
  (Len(urls) = 0 /\ Len(documents) = 0) \/ generating

handleGenerateMindMap ==
  /\ ~MindMapBlocked(currentUrlsForChat, activeDocuments, isGeneratingMindMap)
  /\ isGeneratingMindMap' = TRUE
  /\ mapReqs' = Append(mapReqs,
       [urls |-> currentUrlsForChat,
        documents |-> activeDocuments,
        promise |-> Call("mindmap", "", currentUrlsForChat, activeDocuments,
                         DEFAULT_MODEL_NAME, API_KEY)])
  /\ ai' = getAiInstance(API_KEY, ai)
  /\ UNCHANGED <<API_KEY, svcVars, companyVars, docVars, urlVars, chatVars, sugVars,
                 mindMapData, isMindMapOpen, lastAlert>>

\* variant: a failure opens the modal on an empty tree
MindMapSettle_DefaultsTree ==
  /\ \E i \in DOMAIN mapReqs : \E o \in Settles(mapReqs[i].promise) :
       /\ mapReqs' = RemoveAt(mapReqs, i)
       /\ mindMapData' = (IF o.ok THEN o.data ELSE Tree)
       /\ isMindMapOpen' = TRUE
       /\ UNCHANGED lastAlert
  /\ isGeneratingMindMap' = FALSE
  /\ UNCHANGED <<API_KEY, ai, svcVars, companyVars, docVars, urlVars, chatVars, sugVars>>

\* handleGenerateMindMap after its await (209-216)
MindMapSettle ==
  /\ \E i \in DOMAIN mapReqs : \E o \in Settles(mapReqs[i].promise) :
       /\ mapReqs' = RemoveAt(mapReqs, i)
       /\ IF o.ok
          THEN /\ mindMapData' = o.data
               /\ isMindMapOpen' = TRUE
               /\ UNCHANGED lastAlert
          ELSE /\ lastAlert' = (IF o.message # {} THEN o.message
                                ELSE {"Esec la generarea hartii mentale."})
               /\ UNCHANGED <<mindMapData, isMindMapOpen>>
  /\ isGeneratingMindMap' = FALSE
  /\ UNCHANGED <<API_KEY, ai, svcVars, companyVars, docVars, urlVars, chatVars, sugVars>>

\* MindMapModal onClose (344)
onCloseMindMap ==
  /\ isMindMapOpen
  /\ isMindMapOpen' = FALSE
  /\ UNCHANGED <<API_KEY, ai, svcVars, companyVars, docVars, urlVars, chatVars, sugVars,
                 isGeneratingMindMap, mindMapData, mapReqs, lastAlert>>

CompanyActions ==
  \/ ModalTimerFires \/ handleAddNewCompany \/ onEditCompany \/ onCancel
  \/ handleSaveCompany \/ handleSwitchCompany
DocumentActions == handleFileChange \/ handleAddDocument \/ handleRemoveDocument
UrlActions == handleAddUrl \/ handleRemoveUrl \/ setActiveUrlGroupId
ChatActions == handleSendMessage \/ ChatSettle

\* The chat: companies, URLs, suggestions and messages.
NextChat == CompanyActions \/ UrlActions \/ SuggestionsSettle \/ ChatActions
SpecChat == Init /\ [][NextChat]_vars

\* The documents: companies, uploads, and the two requests that read them.
NextDocs ==
  \/ CompanyActions \/ DocumentActions \/ SuggestionsSettle
  \/ ChatActions \/ handleGenerateMindMap \/ MindMapSettle
SpecDocs == Init /\ [][NextDocs]_vars

\* ------------------------------------------------------- the URL groups
\* k URLs a user has typed
TypedUrls(k) == [i \in 1..k |-> "https://u" \o ToString(i)]

\* The component after the user has added URLs to the first group, up to
\* one below the maximum or up to the maximum; the suggestion requests of
\* all additions but the last have completed.
InitUrls ==
  /\ API_KEY \in BOOLEAN
  /\ call = IdleCall /\ calls = 0
  /\ companies = <<>> /\ activeCompanyId = NoId
  /\ editingCompany = NoCompany /\ isCompanyModalOpen = FALSE
  /\ localDocuments = <<>>
  /\ \E k \in {0, MAX_URLS - Len(FISCAL_URLS) - 1, MAX_URLS - Len(FISCAL_URLS)} :
       urlGroups = [INITIAL_URL_GROUPS EXCEPT !.legislatie = @ \o TypedUrls(k)]
  /\ activeUrlGroupId = "legislatie"
  /\ chatMessages = <<>> /\ isLoading = FALSE
  /\ isFetchingSuggestions = API_KEY /\ initialQuerySuggestions = <<>>
  /\ sugReqs = IF API_KEY THEN <<SuggestionRequest(urlGroups.legislatie)>> ELSE <<>>
  /\ ai = API_KEY
  /\ isGeneratingMindMap = FALSE /\ mindMapData = JNull /\ isMindMapOpen = FALSE
  /\ modalTimer = TRUE /\ uploads = <<>> /\ chatReqs = <<>> /\ mapReqs = <<>>
  /\ lastSettled = [n |-> 0, ok |-> TRUE, message |-> {}]
  /\ lastAlert = {}
  /\ uploaded = 0 /\ sent = 0 /\ urlEdits = 0

NextUrls == UrlActions \/ SuggestionsSettle
SpecUrls == InitUrls /\ [][NextUrls]_vars

\* ------------------------------------------- the requests, step by step
\* The same component with the service calls of its requests taken one
\* provider attempt and one backoff timer at a time, and the continuation
\* of a handler run once its promise has settled.
AllSettled(reqs) == \A i \in DOMAIN reqs : Terminal(reqs[i].promise)

ChatAttemptReturns ==
  /\ \E i \in DOMAIN chatReqs, text \in SettleTexts("chat") :
       /\ chatReqs[i].promise.pc = "attempt"
       /\ chatReqs' = [chatReqs EXCEPT ![i].promise = AttemptOk(@, text)]
  /\ UNCHANGED <<API_KEY, ai, svcVars, companyVars, docVars, urlVars, chatMessages,
                 isLoading, lastSettled, sent, sugVars, mapVars>>

ChatAttemptThrows ==
  /\ \E i \in DOMAIN chatReqs, e \in SettleErrors :
       /\ chatReqs[i].promise.pc = "attempt"
       /\ chatReqs' = [chatReqs EXCEPT ![i].promise = AttemptFail(@, e)]
  /\ UNCHANGED <<API_KEY, ai, svcVars, companyVars, docVars, urlVars, chatMessages,
                 isLoading, lastSettled, sent, sugVars, mapVars>>

ChatBackoffElapses ==
  /\ \E i \in DOMAIN chatReqs :
       /\ chatReqs[i].promise.pc = "wait"
       /\ chatReqs' = [chatReqs EXCEPT ![i].promise = TimerFired(@)]
  /\ UNCHANGED <<API_KEY, ai, svcVars, companyVars, docVars, urlVars, chatMessages,
                 isLoading, lastSettled, sent, sugVars, mapVars>>

ChatSettled == AllSettled(chatReqs) /\ ChatSettle

MindMapAttemptReturns ==
  /\ \E i \in DOMAIN mapReqs, text \in SettleTexts("mindmap") :
       /\ mapReqs[i].promise.pc = "attempt"
       /\ mapReqs' = [mapReqs EXCEPT ![i].promise = AttemptOk(@, text)]
  /\ UNCHANGED <<API_KEY, ai, svcVars, companyVars, docVars, urlVars, chatVars, sugVars,
                 isGeneratingMindMap, mindMapData, isMindMapOpen, lastAlert>>

MindMapAttemptThrows ==
  /\ \E i \in DOMAIN mapReqs, e \in SettleErrors :
       /\ mapReqs[i].promise.pc = "attempt"
       /\ mapReqs' = [mapReqs EXCEPT ![i].promise = AttemptFail(@, e)]
  /\ UNCHANGED <<API_KEY, ai, svcVars, companyVars, docVars, urlVars, chatVars, sugVars,
                 isGeneratingMindMap, mindMapData, isMindMapOpen, lastAlert>>

MindMapBackoffElapses ==
  /\ \E i \in DOMAIN mapReqs :
       /\ mapReqs[i].promise.pc = "wait"
       /\ mapReqs' = [mapReqs EXCEPT ![i].promise = TimerFired(@)]
  /\ UNCHANGED <<API_KEY, ai, svcVars, companyVars, docVars, urlVars, chatVars, sugVars,
                 isGeneratingMindMap, mindMapData, isMindMapOpen, lastAlert>>

MindMapSettled == AllSettled(mapReqs) /\ MindMapSettle

SuggestionAttemptReturns ==
  /\ \E i \in DOMAIN sugReqs, text \in SuggestionTexts :
       /\ sugReqs[i].promise.pc = "attempt"
       /\ sugReqs' = [sugReqs EXCEPT ![i].promise = AttemptOk(@, text)]
  /\ UNCHANGED <<API_KEY, ai, svcVars, companyVars, docVars, urlVars, chatVars, mapVars,
                 isFetchingSuggestions, initialQuerySuggestions>>

SuggestionAttemptThrows ==
  /\ \E i \in DOMAIN sugReqs, e \in SettleErrors :
       /\ sugReqs[i].promise.pc = "attempt"
       /\ sugReqs' = [sugReqs EXCEPT ![i].promise = AttemptFail(@, e)]
  /\ UNCHANGED <<API_KEY, ai, svcVars, companyVars, docVars, urlVars, chatVars, mapVars,
                 isFetchingSuggestions, initialQuerySuggestions>>

SuggestionBackoffElapses ==
  /\ \E i \in DOMAIN sugReqs :
       /\ sugReqs[i].promise.pc = "wait"
       /\ sugReqs' = [sugReqs EXCEPT ![i].promise = TimerFired(@)]
  /\ UNCHANGED <<API_KEY, ai, svcVars, companyVars, docVars, urlVars, chatVars, mapVars,
                 isFetchingSuggestions, initialQuerySuggestions>>

\* the continuation of a suggestion request runs once its promise has
\* settled, whatever the state of the other requests
SuggestionsSettled ==
  \E i \in DOMAIN sugReqs :
    /\ Terminal(sugReqs[i].promise)
    /\ SuggestionsContinue(i, Outcome(sugReqs[i].promise))

SendChat == SendMessage(MaxChats)

\* The chat and the mind map step by step.
NextSteps ==
  \/ SendChat \/ ChatAttemptReturns \/ ChatAttemptThrows \/ ChatBackoffElapses \/ ChatSettled
  \/ handleGenerateMindMap \/ MindMapAttemptReturns \/ MindMapAttemptThrows
  \/ MindMapBackoffElapses \/ MindMapSettled
  \/ SuggestionsSettle
SpecSteps == Init /\ [][NextSteps]_vars

\* The mind map step by step, generated again and again, its modal closed
\* in between.
NextMap ==
  \/ handleGenerateMindMap \/ MindMapAttemptReturns \/ MindMapAttemptThrows
  \/ MindMapBackoffElapses \/ MindMapSettled \/ onCloseMindMap
  \/ SuggestionsSettle
SpecMap == Init /\ [][NextMap]_vars

\* The chat log: companies created, edited and switched while messages are
\* sent and answered.
NextLog == CompanyActions \/ SendChat \/ ChatSettle \/ SuggestionsSettle
SpecLog == Init /\ [][NextLog]_vars

\* The suggestions step by step, with the changes of the URL list that
\* start a request.
NextSuggest ==
  \/ handleAddUrl \/ handleRemoveUrl
  \/ SuggestionAttemptReturns \/ SuggestionAttemptThrows \/ SuggestionBackoffElapses
  \/ SuggestionsSettled
SpecSuggest == Init /\ [][NextSuggest]_vars

\* The suggestions step by step, with URLs added while a request is in
\* flight.
AddUrlMeanwhile == AddUrlUnder(MaxOverlap)
NextOverlap ==
  \/ AddUrlMeanwhile
  \/ SuggestionAttemptReturns \/ SuggestionAttemptThrows \/ SuggestionBackoffElapses
  \/ SuggestionsSettled
SpecOverlap == Init /\ [][NextOverlap]_vars

\* The chat and the mind map step by step, under the assumption that every
\* provider attempt returns or throws, every backoff timer fires, and the
\* continuation of a settled promise runs.
NextLive ==
  \/ handleSendMessage \/ ChatAttemptReturns \/ ChatAttemptThrows \/ ChatBackoffElapses
  \/ ChatSettled
  \/ handleGenerateMindMap \/ MindMapAttemptReturns \/ MindMapAttemptThrows
  \/ MindMapBackoffElapses \/ MindMapSettled
  \/ SuggestionsSettle
Fairness ==
  /\ WF_vars(ChatAttemptReturns \/ ChatAttemptThrows)
  /\ WF_vars(ChatBackoffElapses) /\ WF_vars(ChatSettled)
  /\ WF_vars(MindMapAttemptReturns \/ MindMapAttemptThrows)
  /\ WF_vars(MindMapBackoffElapses) /\ WF_vars(MindMapSettled)
SpecLive == Init /\ [][NextLive]_vars /\ Fairness

\* ------------------------------------------------ the service on its own
Functions == {"chat", "mindmap", "suggest"}
Models == {"gemini-2.5-flash", "gemini-3-pro-preview"}

InitCall ==
  /\ API_KEY \in BOOLEAN
  /\ ai = FALSE
  /\ call = IdleCall
  /\ calls = 0
  /\ Unmounted

\* the arguments a caller can pass
Prompts == {"q"}
UrlLists == {<<>>, <<"https://x.ro">>, <<"https://y.ro", "https://x.ro">>}
DocLists(fn) ==
  IF fn = "chat"
  THEN {<<>>, <<[id |-> 2, companyId |-> 1], [id |-> 1, companyId |-> 1]>>}
  ELSE IF fn = "mindmap" THEN {<<[id |-> 1, companyId |-> 1]>>}
  ELSE {<<>>}

Invoke ==
  /\ call.pc = "idle"
  /\ \E fn \in Functions, urls \in UrlLists, m \in Models :
      \E prompt \in Prompts, documents \in DocLists(fn) :
       /\ call' = Call(fn, prompt, urls, documents, m, API_KEY)
       /\ ai' = IF ReachesGetAiInstance(fn, Len(urls)) THEN getAiInstance(API_KEY, ai) ELSE ai
  /\ calls' = calls + 1
  /\ UNCHANGED <<API_KEY, appVars>>

ProviderReturns ==
  /\ call.pc = "attempt"
  /\ \E text \in ResponseTexts : call' = AttemptOk(call, text)
  /\ UNCHANGED <<API_KEY, ai, calls, appVars>>

ProviderThrows ==
  /\ call.pc = "attempt"
  /\ \E e \in ProviderErrors : call' = AttemptFail(call, e)
  /\ UNCHANGED <<API_KEY, ai, calls, appVars>>

BackoffElapses ==
  /\ call.pc = "wait"
  /\ call' = TimerFired(call)
  /\ UNCHANGED <<API_KEY, ai, calls, appVars>>

\* the caller has its answer; the next call starts from a clean frame
Settle ==
  /\ call.pc \in {"resolved", "rejected"}
  /\ calls < MaxCalls
  /\ call' = IdleCall
  /\ UNCHANGED <<API_KEY, ai, calls, appVars>>

NextCall == Invoke \/ ProviderReturns \/ ProviderThrows \/ BackoffElapses \/ Settle

SpecCall == InitCall /\ [][NextCall]_vars

\* ------------------------------------------- properties of the call layer
RECURSIVE Pow2(_)
Pow2(n) == IF n = 0 THEN 1 ELSE 2 * Pow2(n - 1)

RunLog(c, r) == SelectSeq(c.log, LAMBDA x : x.run = r)
RunWaits(c, r) == SelectSeq(c.waits, LAMBDA w : w.run = r)
BaseRetries(c) == IF UsesFallback(c.fn) THEN 3 ELSE 1
BaseDelay(c) == IF UsesFallback(c.fn) THEN 2000 ELSE 1000
FailedQuota(x) == x.outcome \in {"quota", "both"}
FailedNotFound(x) == x.outcome \in {"notfound", "both"}

\* C1: a retryOperation run whose first k attempts (k <= retries) fail with
\* a rate-limit/quota signature and whose attempt k+1 succeeds returns that
\* attempt's result after exactly k waits, the i-th being delay * 2^(i-1);
\* the chat call with quota errors on attempts 1 and 2 and success on
\* attempt 3 makes 3 attempts and waits 2000 ms, then 4000 ms.
C1_RetryBackoff ==
  /\ \A r \in 1..2 :
       LET seg == RunLog(call, r)
           ws == RunWaits(call, r)
           k == Len(seg) - 1
       IN (/\ seg # <<>>
           /\ k <= BaseRetries(call)
           /\ \A i \in 1..k : FailedQuota(seg[i])
           /\ seg[k + 1].outcome = "ok")
          => /\ call.returned.by = Len(call.log)
             /\ call.log[call.returned.by] = seg[k + 1]
             /\ Len(ws) = k
             /\ \A i \in 1..k : ws[i].ms = BaseDelay(call) * Pow2(i - 1)
  /\ (/\ call.fn = "chat"
      /\ Len(call.log) >= 3
      /\ FailedQuota(call.log[1]) /\ FailedQuota(call.log[2])
      /\ call.log[3].outcome = "ok")
     => /\ Len(call.log) = 3
        /\ call.waits = <<[run |-> 1, ms |-> 2000], [run |-> 1, ms |-> 4000]>>
        /\ call.pc = "resolved"
        /\ call.value = [text |-> call.returned.text, by |-> 3]

C1_Witness ==
  /\ call.fn = "chat"
  /\ Len(call.log) = 3
  /\ FailedQuota(call.log[1]) /\ FailedQuota(call.log[2])
  /\ call.log[3].outcome = "ok"
  /\ call.pc = "resolved"

\* the position of attempt i within its own retryOperation run
PosInRun(c, i) == Cardinality({j \in 1..i : c.log[j].run = c.log[i].run})

\* C2: an attempt that fails without a rate-limit/quota signature, or with
\* one when no retries remain, ends its retryOperation run: the error of
\* that very attempt is what the run throws, unchanged, and the run makes
\* no wait and no attempt after it.
C2_PropagatesUnchanged ==
  \A i \in 1..Len(call.log) :
    LET x == call.log[i]
        j == PosInRun(call, i)
    IN (x.outcome # "ok" /\ (~FailedQuota(x) \/ j = BaseRetries(call) + 1))
       => /\ Len(call.thrown) >= x.run
          /\ call.thrown[x.run].at = i
          /\ [call.thrown[x.run] EXCEPT !.at = 0] \in ProviderErrors
          /\ ErrClass(call.thrown[x.run]) = x.outcome
          /\ \A m \in (i + 1)..Len(call.log) : call.log[m].run # x.run
          /\ Len(RunWaits(call, x.run)) = j - 1

C2_Witness ==
  /\ Len(call.log) = 4
  /\ \A i \in 1..4 : call.log[i].run = 1 /\ call.log[i].outcome = "quota"
  /\ Len(call.thrown) = 1
  /\ call.pc = "rejected"

Last(q) == q[Len(q)]
FallbackSucceeded(c) ==
  c.log # <<>> /\ Last(c.log).run = 2 /\ Last(c.log).outcome = "ok"

\* C3 as stated: when the preferred model's attempt fails with a
\* model-not-found error and the fallback model's attempt succeeds,
\* withFallback returns the fallback's result and the preferred model has
\* been attempted exactly once.
C3_AsStated ==
  (/\ UsesFallback(call.fn)
   /\ call.log # <<>> /\ FailedNotFound(call.log[1])
   /\ FallbackSucceeded(call))
  => /\ call.returned.by = Len(call.log)
     /\ Last(call.log).model = FALLBACK_MODEL_NAME
     /\ Len(RunLog(call, 1)) = 1

\* C3 amended: when the preferred model's attempt fails with a
\* model-not-found error that carries no rate-limit/quota signature and the
\* fallback model's attempt succeeds, withFallback returns the fallback's
\* result and the preferred model has been attempted exactly once.
C3_FallbackAfterOneAttempt ==
  (/\ UsesFallback(call.fn)
   /\ call.log # <<>> /\ call.log[1].outcome = "notfound"
   /\ FallbackSucceeded(call))
  => /\ call.returned.by = Len(call.log)
     /\ Last(call.log).model = FALLBACK_MODEL_NAME
     /\ Len(RunLog(call, 1)) = 1
     /\ call.log[1].model = call.modelName

C3_Witness ==
  /\ call.fn = "chat"
  /\ Len(call.log) = 2
  /\ call.log[1].outcome = "notfound"
  /\ call.log[2] = [model |-> FALLBACK_MODEL_NAME, run |-> 2, outcome |-> "ok"]
  /\ call.pc = "resolved" /\ call.value.by = 2

\* C4: the fallback model is attempted only when the error that ended the
\* preferred model's run is a model-not-found error; any other final error
\* reaches the caller of withFallback and the fallback model is never
\* called.
C4_FallbackOnlyOnNotFound ==
  /\ (\E i \in 1..Len(call.log) :
         call.log[i].run = 2 \/ call.log[i].model = FALLBACK_MODEL_NAME)
     => /\ UsesFallback(call.fn)
        /\ call.thrown # <<>>
        /\ NotFoundSignature(call.thrown[1])
  /\ (/\ UsesFallback(call.fn)
      /\ call.thrown # <<>>
      /\ ~NotFoundSignature(call.thrown[1]))
     => /\ \A i \in 1..Len(call.log) :
             call.log[i].run = 1 /\ call.log[i].model = call.modelName
        /\ call.pc = "rejected"
        /\ call.caught = call.thrown[1]

C4_Witness ==
  /\ call.fn = "chat"
  /\ Len(call.log) = 4
  /\ \A i \in 1..4 : call.log[i].outcome = "quota"
  /\ call.pc = "rejected"
  /\ call.caught = call.thrown[1]

\* C5: a model-not-found error starts exactly one fallback run; when that
\* run fails too, even with a model-not-found error, there is no further
\* run, and the error leaving withFallback is the fallback run's own.
C5_OneFallbackRun ==
  /\ Len(call.thrown) <= 2
  /\ Len(RunLog(call, 2)) <= DefaultRetries + 1
  /\ \A i \in 1..Len(call.log) : call.log[i].run = 2 => call.log[i].model = FALLBACK_MODEL_NAME
  /\ Len(call.thrown) = 2
     => /\ call.pc = "rejected"
        /\ call.caught = call.thrown[2]
        /\ call.caught.at = Len(call.log)
        /\ Last(call.log).run = 2
        /\ call.caught # call.thrown[1]

C5_Witness ==
  /\ Len(call.thrown) = 2
  /\ NotFoundSignature(call.thrown[1]) /\ NotFoundSignature(call.thrown[2])
  /\ call.pc = "rejected"

\* C8 as stated: getInitialSuggestions called with a non-empty URL list
\* never rejects; on any failure, a missing credential included, it
\* resolves with an empty suggestions array.
C8_AsStated ==
  (call.fn = "suggest" /\ call.urls > 0)
  => /\ call.pc # "rejected"
     /\ (call.pc = "resolved" /\ (call.log = <<>> \/ Last(call.log).outcome # "ok"))
        => call.value.text = EmptySuggestions

\* C8 amended: getInitialSuggestions called with a non-empty URL list and
\* a configured credential never rejects: on any provider failure it
\* resolves with an empty suggestions array; without a credential it
\* rejects with the configuration error before any provider call.
C8_SuggestionsNeverThrowWithKey ==
  (call.fn = "suggest" /\ call.urls > 0)
  => /\ API_KEY
        => /\ call.pc # "rejected"
           /\ (Terminal(call) /\ Last(call.log).outcome # "ok")
              => call.pc = "resolved" /\ call.value.text = EmptySuggestions
     /\ ~API_KEY
        => /\ call.pc = "rejected"
           /\ call.error = ConfigError
           /\ call.log = <<>>

C8_Witness ==
  /\ call.fn = "suggest" /\ call.urls > 0 /\ API_KEY
  /\ Len(call.log) = 2
  /\ call.log[2].outcome = "quota"
  /\ call.pc = "resolved" /\ call.value.text = EmptySuggestions

\* C9: getInitialSuggestions called with an empty URL list returns its
\* fixed placeholder suggestions and makes no provider call, with or
\* without a credential.
C9_PlaceholderWithoutCall ==
  (call.fn = "suggest" /\ call.urls = 0)
  => /\ call.pc = "resolved"
     /\ call.value.text = PlaceholderSuggestions
     /\ call.log = <<>> /\ call.waits = <<>>

C9_Witness ==
  /\ call.fn = "suggest" /\ call.urls = 0 /\ ~API_KEY
  /\ call.pc = "resolved" /\ call.value.text = PlaceholderSuggestions

\* C10: without a credential generateContentWithUrlContext and
\* generateMindMapFromContext fail at once with the configuration error:
\* no provider call, no wait, no fallback, no client handle.
C10_NoCredentialFailsFast ==
  (~API_KEY /\ call.fn \in {"chat", "mindmap"})
  => /\ call.pc = "rejected"
     /\ call.error = ConfigError
     /\ call.log = <<>> /\ call.waits = <<>>
     /\ ~call.fellBack /\ call.thrown = <<>>
     /\ ai = FALSE

C10_Witness ==
  /\ ~API_KEY /\ call.fn = "mindmap"
  /\ call.pc = "rejected" /\ call.error = ConfigError
  /\ calls = 2

\* the response text of the attempt that succeeded, for a call of fn
Answered(c, fn) ==
  c.fn = fn /\ c.log # <<>> /\ Last(c.log).outcome = "ok" /\ c.returned.by = Len(c.log)
EmptyOrAbsent(text) == text = Undefined \/ text = EmptyText
NoDataMessage == {"No data returned for Mind Map"}

\* C11: when the provider call of generateMindMapFromContext succeeds with
\* an empty or absent response text, the call rejects with the error "No
\* data returned for Mind Map"; it never resolves, with a null tree, an
\* empty tree or any other.
C11_NoDataOnEmptyText ==
  (Answered(call, "mindmap") /\ EmptyOrAbsent(call.returned.text))
  => /\ call.pc = "rejected"
     /\ call.error.message = NoDataMessage
     /\ call.parsed = Unset

C11_Witness ==
  /\ Answered(call, "mindmap") /\ call.returned.text = EmptyText
  /\ Last(call.log).run = 2
  /\ call.pc = "rejected" /\ call.error.message = NoDataMessage

\* C12 as stated: when the response text of generateMindMapFromContext is
\* not empty but is no JSON, the caller gets the error "No data returned
\* for Mind Map", not the exception of the parser.
C12_UnparseableIsNoData ==
  (/\ Answered(call, "mindmap")
   /\ ~EmptyOrAbsent(call.returned.text)
   /\ call.returned.text.body.kind = "invalid")
  => /\ call.pc = "rejected"
     /\ call.error.message = NoDataMessage

\* C13 as stated: when the response text of generateMindMapFromContext is
\* valid JSON inside a code fence, with or without a language tag, the
\* fence is taken off before parsing and the call resolves with the tree.
C13_FencedTreeIsReturned ==
  (/\ Answered(call, "mindmap")
   /\ call.returned.text.fence \in Fences
   /\ call.returned.text.body.kind = "tree")
  => /\ call.pc = "resolved"
     /\ call.parsed = call.returned.text.body

\* the call was rejected after a retryOperation run that spent its whole
\* budget on errors with a rate-limit signature
ExhaustedByQuota(c) ==
  /\ c.pc = "rejected" /\ c.log # <<>>
  /\ LET seg == RunLog(c, Last(c.log).run) IN
     /\ Len(seg) = DefaultRetries + 1
     /\ \A i \in DOMAIN seg : FailedQuota(seg[i])
QuotaMessage == {"API Quota Exceeded"}

\* C22 as stated: when the retry budget of a chat call is used up by
\* rate-limit errors, the caller gets the quota-exceeded message, whichever
\* signature the errors carry: status 429, code 429, or a message that
\* contains 429, quota or RESOURCE_EXHAUSTED.
C22_QuotaMessageForEverySignature ==
  (call.fn = "chat" /\ ExhaustedByQuota(call)) => call.error.message = QuotaMessage

AttemptsOn(c, model) == Cardinality({i \in DOMAIN c.log : c.log[i].model = model})

\* C23: whatever errors the provider throws, a chat or mind-map call makes
\* at most 4 attempts in its first run, all against the preferred model,
\* and at most 4 in its fallback run, all against the fallback model, 8 in
\* total; a suggestion call makes at most 2 attempts and has no fallback
\* run; the waits of every run, the fallback run included, start from the
\* base delay and double; the chat budget is larger than the suggestion
\* budget.
C23_AttemptsBounded ==
  /\ UsesFallback(call.fn)
     => /\ Len(RunLog(call, 1)) <= 4 /\ Len(RunLog(call, 2)) <= 4
        /\ Len(call.log) <= 8
        /\ \A i \in DOMAIN call.log :
             call.log[i].model = (IF call.log[i].run = 1 THEN call.modelName
                                  ELSE FALLBACK_MODEL_NAME)
        /\ AttemptsOn(call, call.modelName) <= 4
        /\ AttemptsOn(call, FALLBACK_MODEL_NAME) <= 4
  /\ call.fn = "suggest"
     => /\ Len(call.log) <= 2
        /\ RunLog(call, 2) = <<>>
  /\ \A r \in 1..2 :
       LET ws == RunWaits(call, r) IN
       /\ Len(ws) <= BaseRetries(call)
       /\ \A i \in DOMAIN ws : ws[i].ms = BaseDelay(call) * Pow2(i - 1)
  /\ DefaultRetries + 1 > SuggestionRetries + 1

\* three rate-limit errors and a not-found error on the preferred model,
\* four rate-limit errors on the fallback model
C23_Witness ==
  /\ call.fn = "chat" /\ call.pc = "rejected"
  /\ Len(call.log) = 8
  /\ AttemptsOn(call, call.modelName) = 4 /\ AttemptsOn(call, FALLBACK_MODEL_NAME) = 4
  /\ [i \in 1..6 |-> call.waits[i].ms] = <<2000, 4000, 8000, 2000, 4000, 8000>>

\* C19: for every document list D and URL list U, the parts that
\* generateContentWithUrlContext sends are |D| binary parts, the i-th
\* carrying the i-th document, followed by exactly one text part; the
\* URL-fetch tool is declared if and only if U is not empty.
C19_PartsAndTool ==
  (call.fn = "chat" /\ call.pc # "idle" /\ API_KEY)
  => LET D == call.args.documents
         U == call.args.urls
         parts == call.request.parts
     IN /\ Len(parts) = Len(D) + 1
        /\ \A i \in 1..Len(D) : parts[i].kind = "inlineData" /\ parts[i].data = D[i].id
        /\ parts[Len(D) + 1].kind = "text"
        /\ Cardinality({i \in DOMAIN parts : parts[i].kind = "text"}) = 1
        /\ ("urlContext" \in Range(call.request.tools)) <=> (U # <<>>)

C19_Witness ==
  /\ call.fn = "chat" /\ call.pc = "resolved"
  /\ Len(call.args.documents) = 2 /\ call.args.documents[1].id = 2
  /\ call.args.urls = <<>>
  /\ Len(call.request.parts) = 3 /\ call.request.tools = <<>>

\* the URLs that the texts of a request name
UrlsNamed(request) ==
  UNION {Range(request.parts[i].text) : i \in DOMAIN request.parts} \cap UNION {Range(u) : u \in UrlLists}

\* C30: a request of generateMindMapFromContext, and a request of
\* getInitialSuggestions for a non-empty URL list, declares no tool and
\* names no URL, and is the request that the same call with any other URL
\* list (non-empty, for the suggestions) sends.
C30_OnlyChatSendsUrls ==
  (/\ call.pc # "idle" /\ API_KEY
   /\ call.fn = "mindmap" \/ (call.fn = "suggest" /\ call.args.urls # <<>>))
  => /\ call.request # NoRequest
     /\ call.request.tools = <<>>
     /\ UrlsNamed(call.request) = {}
     /\ \A urls \in UrlLists :
          (call.fn = "suggest" => urls # <<>>)
          => Request(call.fn, call.args.prompt, urls, call.args.documents) = call.request

\* the mind map was generated for two URLs and one document: the request
\* holds the document and the fixed prompt
C30_Witness ==
  /\ call.fn = "mindmap" /\ call.pc = "resolved"
  /\ Len(call.args.urls) = 2 /\ Len(call.args.documents) = 1
  /\ Len(call.request.parts) = 2 /\ call.request.tools = <<>>

\* ------------------------------------------------- properties of the App
\* C6 as stated: every chat request whose provider call fails ends with a
\* message in the chat log whose sender is the system, that carries the
\* error text and is not loading, whatever the user did while the request
\* was in flight.
C6_FailureIsShown ==
  [][(Len(chatReqs') < Len(chatReqs) /\ ~lastSettled'.ok)
     => \E i \in DOMAIN chatMessages' :
          /\ chatMessages'[i].sender = "system"
          /\ chatMessages'[i].isLoading = FALSE
          /\ "Eroare: " \in chatMessages'[i].text
          /\ lastSettled'.message \subseteq chatMessages'[i].text]_vars

\* sub is exactly the documents of full that belong to company cid, in
\* their order
ExactlyDocsOf(sub, full, cid) ==
  /\ \A i \in DOMAIN sub :
       sub[i].companyId = cid /\ \E j \in DOMAIN full : full[j] = sub[i]
  /\ \A j \in DOMAIN full :
       full[j].companyId = cid => \E i \in DOMAIN sub : sub[i] = full[j]
  /\ Len(sub) = Cardinality({j \in DOMAIN full : full[j].companyId = cid})
  /\ \A i1, i2 \in DOMAIN sub :
       i1 < i2 => \E j1, j2 \in DOMAIN full :
                    j1 < j2 /\ full[j1] = sub[i1] /\ full[j2] = sub[i2]

\* C7: the documents handed to a chat request and to a mind-map request are
\* exactly the stored documents whose companyId is the company active when
\* the request is issued, never a document of another company, after any
\* sequence of company creations, edits and switches, uploads and removals.
C7_OnlyActiveCompanyDocuments ==
  [][/\ Len(chatReqs') > Len(chatReqs)
        => ExactlyDocsOf(Last(chatReqs').documents, localDocuments, activeCompanyId)
     /\ Len(mapReqs') > Len(mapReqs)
        => ExactlyDocsOf(Last(mapReqs').documents, localDocuments, activeCompanyId)]_vars

C7_Witness ==
  /\ Len(companies) = 2
  /\ chatReqs # <<>> /\ mapReqs # <<>>
  /\ chatReqs[1].documents # <<>> /\ mapReqs[1].documents # <<>>
  /\ chatReqs[1].documents[1].companyId # mapReqs[1].documents[1].companyId
  /\ Len(localDocuments) = 2

\* --------------------------------------------- properties of the chat log
\* C24: when a chat request completes, with an answer or with an error,
\* and the log still holds its placeholder, the log keeps its length and
\* order: the message at the placeholder's position keeps the
\* placeholder's id and is no longer loading, every other message is as
\* it was.
C24_PlaceholderReplacedInPlace ==
  [][\A i \in DOMAIN chatReqs :
       LET p == chatReqs[i].placeholder IN
       (/\ chatReqs' = RemoveAt(chatReqs, i)
        /\ \E j \in DOMAIN chatMessages : chatMessages[j].id = p.id)
       => /\ Len(chatMessages') = Len(chatMessages)
          /\ \A j \in DOMAIN chatMessages :
               IF chatMessages[j].id = p.id
               THEN /\ chatMessages'[j].id = p.id
                    /\ chatMessages'[j].isLoading = FALSE
                    /\ chatMessages'[j] # chatMessages[j]
               ELSE chatMessages'[j] = chatMessages[j]]_vars

\* the second request has been answered in a log of five messages, the
\* first having ended with an error
C24_Witness ==
  /\ chatReqs = <<>> /\ lastSettled.n = 2 /\ lastSettled.ok
  /\ Len(chatMessages) = 5
  /\ chatMessages[3].id = [kind |-> "model-response", n |-> 1]
  /\ chatMessages[3].sender = "system"
  /\ chatMessages[5].id = [kind |-> "model-response", n |-> 2]
  /\ chatMessages[5].sender = "model" /\ ~chatMessages[5].isLoading

\* C25 as stated: every step that changes the active company, whether by
\* handleSwitchCompany or by handleSaveCompany, creating or editing, sets
\* the chat log to exactly one system message.
C25_CompanyChangeResetsChat ==
  [][activeCompanyId' # activeCompanyId
     => /\ Len(chatMessages') = 1
        /\ chatMessages'[1].sender = "system"]_vars

\* C26: whenever no chat request is in flight, isLoading being false, no
\* message of the chat log is loading.
C26_NoLoadingMessageWhenIdle ==
  ~isLoading => \A j \in DOMAIN chatMessages : ~chatMessages[j].isLoading

\* a company switch reset the log after the first request; the second
\* request failed and its error is in the log
C26_Witness ==
  /\ ~isLoading /\ chatReqs = <<>> /\ lastSettled.n = 2 /\ ~lastSettled.ok
  /\ Len(chatMessages) = 3
  /\ chatMessages[1].id.kind = "switch"
  /\ chatMessages[3].id = [kind |-> "model-response", n |-> 2]
  /\ chatMessages[3].sender = "system"

\* ------------------------------- properties of the requests, step by step
Min(a, b) == IF a < b THEN a ELSE b

\* out is the first n strings among entries, in their order
IsFirstStrings(out, entries, n) ==
  LET idx == {i \in DOMAIN entries : entries[i].type = "string"}
      rank(i) == Cardinality({j \in idx : j <= i})
  IN /\ Len(out) = Min(Cardinality(idx), n)
     /\ \A i \in idx : rank(i) <= n => out[rank(i)] = entries[i].v

\* the text is a JSON object with an array under suggestions, fenced or not
IsSuggestionsText(text) ==
  text.defined /\ text.body.kind = "object" /\ text.body.suggestionsIsArray

FiveFenced ==
  Text("FENCE json", SuggestionsDoc(<<JStr("a"), JStr("b"), JStr("c"), JStr("d"), JStr("e")>>))

\* the step is the continuation of the suggestion request i, whose call
\* resolved with the response text of a successful attempt
SuggestionAnswered(i) ==
  /\ sugReqs' = RemoveAt(sugReqs, i)
  /\ Answered(sugReqs[i].promise, "suggest")
  /\ sugReqs[i].promise.pc = "resolved"
  /\ sugReqs[i].promise.value.text = sugReqs[i].promise.returned.text

\* C14: when the response text of a suggestion request is a JSON object
\* with a suggestions array, fenced or not, the suggestions stored are the
\* first four of the strings of the array, in their order, the other
\* entries being dropped; the fenced array a,b,c,d,e gives a,b,c,d.
C14_StringsInOrderFirstFour ==
  [][\A i \in DOMAIN sugReqs :
       LET text == sugReqs[i].promise.returned.text IN
       (SuggestionAnswered(i) /\ IsSuggestionsText(text))
       => /\ IsFirstStrings(initialQuerySuggestions', text.body.suggestions, 4)
          /\ text = FiveFenced => initialQuerySuggestions' = <<"a", "b", "c", "d">>]_vars

C14_Witness ==
  /\ sugReqs = <<>> /\ ~isFetchingSuggestions
  /\ initialQuerySuggestions = <<"x", "y", "z", "w">>

\* C15: when the response text of a suggestion request is no valid JSON,
\* or is JSON without a suggestions array, the suggestions stored are the
\* empty list, isFetchingSuggestions is false again, and nothing else of
\* the component changes: nothing is raised.
C15_MalformedGivesEmptyList ==
  [][\A i \in DOMAIN sugReqs :
       LET text == sugReqs[i].promise.returned.text IN
       (/\ SuggestionAnswered(i)
        /\ text.defined
        /\ \/ text.body.kind \in {"invalid", "empty"}
           \/ ~text.body.suggestionsIsArray)
       => /\ initialQuerySuggestions' = <<>>
          /\ isFetchingSuggestions' = FALSE
          /\ UNCHANGED <<chatVars, mapVars, companyVars, docVars, urlVars>>]_vars

\* a suggestion request answered by a truncated text is about to continue
C15_Witness ==
  /\ sugReqs # <<>>
  /\ sugReqs[1].promise.pc = "resolved"
  /\ sugReqs[1].promise.value.text = Text("none", Truncated)
  /\ isFetchingSuggestions

\* C16: at most one chat request and at most one mind-map request is in
\* flight at any time, and while one is in flight its flag is set, which
\* makes the handler return at once: a second trigger starts no call.
C16_AtMostOneInFlight ==
  /\ Len(chatReqs) <= 1 /\ Len(mapReqs) <= 1
  /\ chatReqs # <<>> => isLoading
  /\ mapReqs # <<>> => isGeneratingMindMap
  /\ chatReqs # <<>> => ~ENABLED SendChat
  /\ mapReqs # <<>> => ~ENABLED handleGenerateMindMap

\* both requests in flight, and sends left: only the flags hold back a
\* second trigger
C16_Witness ==
  /\ Len(chatReqs) = 1 /\ Len(mapReqs) = 1
  /\ chatReqs[1].promise.pc = "wait" /\ mapReqs[1].promise.pc = "attempt"
  /\ sent < MaxChats /\ ~isFetchingSuggestions

\* C17: if every provider attempt returns and every backoff timer fires,
\* every chat request and every mind-map request in flight is eventually
\* completed, with its flag false again.
C17_RequestsComplete ==
  /\ (chatReqs # <<>>) ~> (chatReqs = <<>> /\ ~isLoading)
  /\ (mapReqs # <<>>) ~> (mapReqs = <<>> /\ ~isGeneratingMindMap)

\* the chat request has failed and is over; a mind-map request has failed
\* and the next one is in flight
C17_Witness ==
  /\ lastSettled.n = 1 /\ ~lastSettled.ok /\ chatReqs = <<>> /\ ~isLoading
  /\ lastAlert # {} /\ Len(mapReqs) = 1 /\ mapReqs[1].promise.pc = "wait"

\* the mind-map call has failed: no attempt was made, the last attempt
\* threw, or it returned no text
MindMapFailed(c) ==
  /\ Terminal(c)
  /\ c.log = <<>> \/ Last(c.log).outcome # "ok" \/ EmptyOrAbsent(c.returned.text)

\* C21: a mind-map call that fails (provider error, retries exhausted,
\* empty text, missing credential) rejects with a message and resolves
\* with no tree; the continuation of handleGenerateMindMap then shows that
\* message, leaves mindMapData and isMindMapOpen as they were, and sets
\* isGeneratingMindMap to false.
C21_MindMapFailureIsReported ==
  /\ [](\A i \in DOMAIN mapReqs :
          LET c == mapReqs[i].promise IN
          MindMapFailed(c)
          => c.pc = "rejected" /\ c.error.message # {} /\ c.parsed = Unset)
  /\ [][\A i \in DOMAIN mapReqs :
          (mapReqs' = RemoveAt(mapReqs, i) /\ mapReqs[i].promise.pc = "rejected")
          => /\ lastAlert' = mapReqs[i].promise.error.message
             /\ mindMapData' = mindMapData
             /\ isMindMapOpen' = isMindMapOpen
             /\ isGeneratingMindMap' = FALSE]_vars

\* a tree was shown and the modal closed; the next generation got an
\* answer without text
C21_Witness ==
  /\ mapReqs = <<>> /\ ~isGeneratingMindMap
  /\ lastAlert = NoDataMessage
  /\ mindMapData = Tree /\ ~isMindMapOpen

\* C20: the continuation of a suggestion request, whatever the outcome of
\* the request, changes initialQuerySuggestions and isFetchingSuggestions
\* only: the chat log is as before, no alert is shown, and no other state
\* of the component changes.
C20_SuggestionsNeverSurface ==
  [][Len(sugReqs') < Len(sugReqs)
     => UNCHANGED <<chatVars, mapVars, companyVars, docVars, urlVars>>]_vars

\* a suggestion request that failed on every attempt is about to continue
C20_Witness ==
  /\ sugReqs # <<>>
  /\ sugReqs[1].promise.pc = "resolved"
  /\ Len(sugReqs[1].promise.log) = 2
  /\ Last(sugReqs[1].promise.log).outcome = "quota"
  /\ sugReqs[1].promise.value.text = EmptySuggestions

\* C27 as stated: whenever at least one suggestion request is in flight,
\* isFetchingSuggestions is true, also when requests overlap because the
\* URL list changed before an earlier request finished.
C27_FetchingWhileInFlight ==
  sugReqs # <<>> => isFetchingSuggestions

\* C28 as stated: once all suggestion requests have completed, the
\* suggestions shown are those of the most recently issued request, the
\* one for the active URL list: the request whose continuation runs last
\* and stores its suggestions is a request for the active URL list.
C28_LatestRequestWins ==
  [][(Len(sugReqs) = 1 /\ sugReqs' = <<>> /\ currentUrlsForChat # <<>>)
     => sugReqs[1].urls = currentUrlsForChat]_vars

\* ------------------------------------------ properties of the URL groups
\* C29 as stated: whenever the active URL list is empty and no suggestion
\* request is in flight, initialQuerySuggestions is empty.
C29_NoSuggestionsForEmptyList ==
  (currentUrlsForChat = <<>> /\ sugReqs = <<>>) => initialQuerySuggestions = <<>>


NoDuplicates(q) == \A i, j \in DOMAIN q : q[i] = q[j] => i = j

\* C18: every URL group holds at most 20 URLs and no URL twice; a step adds
\* a URL only to a group of fewer than 20 that does not hold it, so an add
\* that would exceed 20 or repeat a URL changes no group; and an add or a
\* remove changes no group but the active one.
C18_UrlGroupsBounded ==
  /\ [](\A g \in GroupIds : Len(urlGroups[g]) <= 20 /\ NoDuplicates(urlGroups[g]))
  /\ [][\A g \in GroupIds :
          /\ g # activeUrlGroupId => urlGroups'[g] = urlGroups[g]
          /\ Len(urlGroups'[g]) > Len(urlGroups[g])
             => /\ Len(urlGroups[g]) < 20
                /\ Len(urlGroups'[g]) = Len(urlGroups[g]) + 1
                /\ SubSeq(urlGroups'[g], 1, Len(urlGroups[g])) = urlGroups[g]
                /\ Last(urlGroups'[g]) \notin Range(urlGroups[g])]_vars

\* the first group was filled to the maximum by an add, the other group
\* is the active one
C18_Witness ==
  /\ Len(urlGroups.legislatie) = 20
  /\ Last(urlGroups.legislatie) = "https://x.ro"
  /\ activeUrlGroupId = "proceduri"
  /\ urlGroups.proceduri = PROCEDURI_CONTABILE_URLS

====
